---- MODULE Spec2Model ----
(***************************************************************************)
(* The parsing machine of take2/langlang/src/vm.rs as a state machine.     *)
(* One behaviour is one call of VM::run on a (program, input) pair: the    *)
(* initial state is VM::new(program) with the input loaded, and every step *)
(* is one turn of the dispatch loop of VM::run.                            *)
(***************************************************************************)
EXTENDS Integers, Sequences, FiniteSets, TLC

VARIABLES program, source, cursor, ffp, program_counter, stack, lrmemo,
          accumulator, status, error

\* The grammar parser of langlang_lib (parser.rs): the fields of struct
\* Parser, the last call made on it and the Result that call returned.
VARIABLES parser_source, parser_cursor, parser_ffp, parser_call, parser_out

vm_vars == <<program, source, cursor, ffp, program_counter, stack, lrmemo,
             accumulator, status, error>>

parser_vars ==
    <<parser_source, parser_cursor, parser_ffp, parser_call, parser_out>>

vars == <<vm_vars, parser_vars>>

\* Longest input the model feeds to run().
MaxLen == 5

----------------------------------------------------------------------------
\* Sequence helpers (Vec::last, Vec::pop, Vec::push).

Last(s) == s[Len(s)]

Front(s) == SubSeq(s, 1, Len(s) - 1)

\* All strings over alphabet A of length at most n (the inputs of run()).
Strings(A, n) == UNION {[1..k -> A] : k \in 0..n}

----------------------------------------------------------------------------
\* enum Error

NoError == [kind |-> "None", expected |-> "", got |-> ""]

EFail == [kind |-> "Fail", expected |-> "", got |-> ""]

ELeftRec == [kind |-> "LeftRec", expected |-> "", got |-> ""]

EOverflow == [kind |-> "Overflow", expected |-> "", got |-> ""]

EEOF == [kind |-> "EOF", expected |-> "", got |-> ""]

\* EMatching with the two characters in each other's place.
EMatching_swapped(expected, current) ==
    [kind |-> "Matching", expected |-> current, got |-> expected]

\* Error::Matching(format!("Expected {}, but got {} instead", expected, current)):
\* the message is determined by, and determines, the two characters.
EMatching(expected, current) ==
    [kind |-> "Matching", expected |-> expected, got |-> current]

\* Result<usize, Error>
Ok(n) == [ok |-> TRUE, pos |-> n, err |-> NoError]

Err(e) == [ok |-> FALSE, pos |-> 0, err |-> e]

\* Option<Value>
None == <<>>

Some(v) == <<v>>

\* enum Value
Chr(c) == [tag |-> "Chr", chr |-> c, name |-> "", children |-> <<>>]

Node(name, children) ==
    [tag |-> "Node", chr |-> "", name |-> name, children |-> children]

----------------------------------------------------------------------------
\* enum Instruction

Instr(op, n, k, c) == [op |-> op, n |-> n, k |-> k, c |-> c]

IHalt == Instr("Halt", 0, 0, "")

IAny == Instr("Any", 0, 0, "")

ICapture == Instr("Capture", 0, 0, "")

IChar(c) == Instr("Char", 0, 0, c)

IChoice(n) == Instr("Choice", n, 0, "")

ICommit(n) == Instr("Commit", n, 0, "")

ICommitB(n) == Instr("CommitB", n, 0, "")

IFail == Instr("Fail", 0, 0, "")

IJump(n) == Instr("Jump", n, 0, "")

ICall(n, k) == Instr("Call", n, k, "")

ICallB(n, k) == Instr("CallB", n, k, "")

IReturn == Instr("Return", 0, 0, "")

----------------------------------------------------------------------------
\* struct StackFrame and its three constructors.

\* new_backtrack with the saved pc one instruction too far.
new_backtrack_next(c, pc, capture) ==
    [ftype |-> "Backtrack", program_counter |-> pc + 1, capture |-> capture,
     cursor |-> Ok(c), captures |-> <<>>, address |-> 0,
     result |-> Err(EFail), precedence |-> 0]

new_backtrack(c, pc, capture) ==
    [ftype |-> "Backtrack", program_counter |-> pc, capture |-> capture,
     cursor |-> Ok(c), captures |-> <<>>, address |-> 0,
     result |-> Err(EFail), precedence |-> 0]

\* new_call with the pc of the Call itself as the return pc.
new_call_at_call(pc, address, precedence) ==
    [ftype |-> "Call", program_counter |-> pc - 1, cursor |-> Err(EFail),
     result |-> Err(EFail), address |-> address, precedence |-> precedence,
     capture |-> 0, captures |-> <<>>]

new_call(pc, address, precedence) ==
    [ftype |-> "Call", program_counter |-> pc, cursor |-> Err(EFail),
     result |-> Err(EFail), address |-> address, precedence |-> precedence,
     capture |-> 0, captures |-> <<>>]

new_lrcall(c, pc, address, precedence) ==
    [ftype |-> "Call", program_counter |-> pc, cursor |-> Ok(c),
     result |-> Err(ELeftRec), address |-> address,
     precedence |-> precedence, captures |-> <<>>, capture |-> 0]

\* struct LeftRecTableEntry
LeftRecTableEntry(c, precedence, bound) ==
    [cursor |-> c, precedence |-> precedence, bound |-> bound]

----------------------------------------------------------------------------
\* struct Program { names, code }: the programs run() is applied to.  The
\* first group is the instruction sequences of the unit tests of vm.rs.

Program(names, code) == [names |-> names, code |-> code]

NoNames == [a \in {} |-> ""]

\* G <- 'a'   (tests ch_1, ch_2)
ch_1 == Program(NoNames, <<ICall(2, 0), IHalt, IChar("a"), IReturn>>)

\* G <- . . .   (test any_1; any_2_eof is its one-Any form)
any_1 == Program(NoNames, <<ICall(2, 0), IHalt, IAny, IAny, IAny, IReturn>>)

\* G <- !'a'   (test not_1)
not_1 ==
    Program(NoNames, <<ICall(2, 0), IHalt, IChoice(4), IChar("a"),
                       ICommit(1), IFail, IReturn>>)

\* G <- !'f'   (test not_2)
not_2 ==
    Program(NoNames, <<ICall(2, 0), IHalt, IChoice(4), IChar("f"),
                       ICommit(1), IFail, IReturn>>)

\* G <- 'a' / 'b'   (tests ord_1, ord_2, ord_3)
ord_1 ==
    Program(NoNames, <<ICall(2, 0), IHalt, IChoice(3), IChar("a"),
                       ICommit(2), IChar("b"), IHalt, IReturn>>)

\* G <- 'a'*   (tests rep_1, rep_2)
rep_1 ==
    Program(NoNames, <<ICall(2, 0), IHalt, IChoice(3), IChar("a"),
                       ICommitB(2), IReturn>>)

\* G <- D '+' D ; D <- '0' / '1'   (tests var_1, var_2)
var_1 ==
    Program(NoNames, <<ICall(2, 0), IJump(11),
                       ICall(4, 0), IChar("+"), ICall(2, 0), IReturn,
                       IChoice(3), IChar("0"), ICommit(2), IChar("1"),
                       IReturn, IHalt>>)

\* G <- G '+' 'n' / 'n'   (test lrvar_1)
lrvar_1 ==
    Program(NoNames, <<ICall(2, 1), IJump(9), IChoice(5), ICallB(1, 1),
                       IChar("+"), IChar("n"), ICommit(2), IChar("n"),
                       IReturn, IHalt>>)

\* G <- 'abacate' / 'abada'   (test capture_1)
capture_1 ==
    Program(2 :> "G",
            <<ICall(2, 0), IHalt, IChoice(16),
              IChar("a"), ICapture, IChar("b"), ICapture, IChar("a"),
              ICapture, IChar("c"), ICapture, IChar("a"), ICapture,
              IChar("t"), ICapture, IChar("e"), ICapture, ICommit(11),
              IChar("a"), ICapture, IChar("b"), ICapture, IChar("a"),
              ICapture, IChar("d"), ICapture, IChar("a"), ICapture,
              IReturn>>)

\* G <- D ; D <- '0' / '1'   (test capture_2)
capture_2 ==
    Program((2 :> "G") @@ (5 :> "D"),
            <<ICall(2, 0), IHalt, ICall(3, 0), ICapture, IReturn,
              IChoice(4), IChar("0"), ICapture, ICommit(3), IChar("1"),
              ICapture, IReturn>>)

\* The second group is further instruction sequences in the same encodings.

\* G <- G '+' 'n' / 'n' as in lrvar_1, with a Capture after every match.
lrvar_cap ==
    Program(2 :> "G",
            <<ICall(2, 1), IJump(13), IChoice(8), ICallB(1, 1), ICapture,
              IChar("+"), ICapture, IChar("n"), ICapture, ICommit(3),
              IChar("n"), ICapture, IReturn, IHalt>>)

\* G <- ('a' ('b' 'c' / 'b' 'd')) / 'a' with a Capture after every match:
\* a choice nested in a choice.
nested_choice ==
    Program(2 :> "G",
            <<ICall(2, 0), IHalt, IChoice(14), IChar("a"), ICapture,
              IChoice(6), IChar("b"), ICapture, IChar("c"), ICapture,
              ICommit(5), IChar("b"), ICapture, IChar("d"), ICapture,
              ICommit(3), IChar("a"), ICapture, IReturn>>)

\* S <- (G Fail) / G ; G <- G '+' 'n' / 'n': two calls of G with precedence
\* 1 at the same cursor, the second after the first has come back.
lr_twice ==
    Program((2 :> "S") @@ (7 :> "G"),
            <<ICall(2, 0), IHalt, IChoice(3), ICall(4, 1), IFail,
              ICall(2, 1), IReturn,
              IChoice(5), ICallB(1, 1), IChar("+"), IChar("n"), ICommit(2),
              IChar("n"), IReturn>>)

\* S <- (G Fail) / G ; G <- G '+' 'n' / 'n' as in lr_twice, the second
\* call of G an ordinary call (precedence 0) made where the memo table has
\* an entry for G.
lr_mixed ==
    Program((2 :> "S") @@ (7 :> "G"),
            <<ICall(2, 0), IHalt, IChoice(3), ICall(4, 1), IFail,
              ICall(2, 0), IReturn,
              IChoice(5), ICallB(1, 1), IChar("+"), IChar("n"), ICommit(2),
              IChar("n"), IReturn>>)

\* S <- (G Fail) / (G / G) ; G <- G '+' 'n' / 'n': G is called with
\* precedence 2, then at the same cursor with precedence 1 and with
\* precedence 3.
lr_prec ==
    Program((2 :> "S") @@ (10 :> "G"),
            <<ICall(2, 0), IHalt, IChoice(3), ICall(7, 2), IFail,
              IChoice(3), ICall(4, 1), ICommit(2), ICall(2, 3), IReturn,
              IChoice(5), ICallB(1, 2), IChar("+"), IChar("n"), ICommit(2),
              IChar("n"), IReturn>>)

\* S <- G / 'n' ; G <- G '+': the left-recursive call of G is made with no
\* Backtrack frame above G's own frame.
lr_bare ==
    Program((2 :> "S") @@ (7 :> "G"),
            <<ICall(2, 0), IHalt, IChoice(3), ICall(4, 1), ICommit(2),
              IChar("n"), IReturn,
              ICallB(0, 1), IChar("+"), IReturn>>)

\* G <- 'a' . . with a Capture before the first match, two Captures after
\* it and one Capture after the two Any.
cap_twice ==
    Program(2 :> "G",
            <<ICall(2, 0), IHalt, ICapture, IChar("a"), ICapture, ICapture,
              IAny, IAny, ICapture, IReturn>>)

\* G <- 'a' ('b' 'c' / 'b' 'd') with a Capture after every match: a choice
\* made when the Call frame already holds a capture.
cap_choice ==
    Program(2 :> "G",
            <<ICall(2, 0), IHalt, IChar("a"), ICapture, IChoice(6),
              IChar("b"), ICapture, IChar("c"), ICapture, ICommit(5),
              IChar("b"), ICapture, IChar("d"), ICapture, IReturn>>)

\* A code vector with no Halt: pc runs past its end.
no_halt == Program(NoNames, <<IChar("a"), IAny>>)

\* A Jump out of the code vector, taken inside a call with or without a
\* Backtrack frame on the stack.
overrun ==
    Program(NoNames, <<ICall(2, 0), IHalt, IChoice(2), IChar("a"), IJump(7)>>)

\* A Commit with no frame on the stack.
bare_commit == Program(NoNames, <<ICommit(1), IHalt>>)

\* A CommitB with no frame on the stack.
bare_commitb == Program(NoNames, <<IAny, ICommitB(1), IHalt>>)

\* A Return with no frame on the stack.
bare_return == Program(NoNames, <<IAny, IReturn>>)

ProgramNames ==
    {"ch_1", "any_1", "not_1", "not_2", "ord_1", "rep_1", "var_1", "lrvar_1",
     "capture_1", "capture_2", "lrvar_cap", "nested_choice", "lr_twice",
     "lr_mixed", "lr_prec", "lr_bare", "cap_twice", "cap_choice",
     "no_halt", "overrun", "bare_commit", "bare_commitb", "bare_return"}

Programs(p) ==
    CASE p = "ch_1" -> ch_1
      [] p = "any_1" -> any_1
      [] p = "not_1" -> not_1
      [] p = "not_2" -> not_2
      [] p = "ord_1" -> ord_1
      [] p = "rep_1" -> rep_1
      [] p = "var_1" -> var_1
      [] p = "lrvar_1" -> lrvar_1
      [] p = "capture_1" -> capture_1
      [] p = "capture_2" -> capture_2
      [] p = "lrvar_cap" -> lrvar_cap
      [] p = "nested_choice" -> nested_choice
      [] p = "lr_twice" -> lr_twice
      [] p = "lr_mixed" -> lr_mixed
      [] p = "lr_prec" -> lr_prec
      [] p = "lr_bare" -> lr_bare
      [] p = "cap_twice" -> cap_twice
      [] p = "cap_choice" -> cap_choice
      [] p = "no_halt" -> no_halt
      [] p = "overrun" -> overrun
      [] p = "bare_commit" -> bare_commit
      [] p = "bare_commitb" -> bare_commitb
      [] p = "bare_return" -> bare_return

\* The characters the inputs of a program are drawn from: the characters
\* its Char instructions name, and one that none of them names.
Alphabet(p) ==
    CASE p \in {"ch_1", "any_1", "rep_1", "cap_twice", "no_halt", "overrun",
                "bare_commit", "bare_commitb", "bare_return"} -> {"a", "b"}
      [] p \in {"not_1", "not_2"} -> {"a", "f", "o"}
      [] p = "ord_1" -> {"a", "b", "c"}
      [] p = "var_1" -> {"0", "1", "2", "+"}
      [] p \in {"lrvar_1", "lrvar_cap", "lr_twice", "lr_mixed", "lr_prec",
                "lr_bare"} ->
            {"n", "+"}
      [] p \in {"capture_1", "nested_choice"} -> {"a", "b", "c", "d"}
      [] p = "capture_2" -> {"0", "1", "2"}
      [] p = "cap_choice" -> {"a", "b", "d"}

code == Programs(program).code

names == Programs(program).names

\* NameOf with the lookup keyed by the wrong address, so that it misses.
NameOf_misses(address) == ""

\* self.program.names.get(&address).unwrap_or(&"".to_string())
NameOf(address) == IF address \in DOMAIN names THEN names[address] ELSE ""

----------------------------------------------------------------------------
\* The helpers of impl VM.

\* advance_ffp without the update of ffp.
advance_ffp_stale(c, f) == f

\* advance_cursor: the new ffp for the new cursor c.
advance_ffp(c, f) == IF c > f THEN c ELSE f

\* capture: the index of the frame the loop of capture() stops at, the
\* topmost frame that is not a Backtrack frame, or 0 when there is none.
RECURSIVE capture_index(_, _)
capture_index(stk, i) ==
    IF i = 0 THEN 0
    ELSE IF stk[i].ftype = "Backtrack" THEN capture_index(stk, i - 1)
    ELSE i

\* capture that pushes on the frame on top of the stack, whatever its type.
capture_top(stk, v) ==
    IF stk = <<>> THEN stk
    ELSE [stk EXCEPT ![Len(stk)].captures = Append(@, v)]

\* capture(v): push v on the captures of that frame.
capture(stk, v) ==
    LET i == capture_index(stk, Len(stk))
    IN IF i = 0 THEN stk
       ELSE [stk EXCEPT ![i].captures = Append(@, v)]

\* captured_len that counts the captures of the innermost Call frame.
captured_len_innermost(stk) ==
    LET i == capture_index(stk, Len(stk))
    IN IF i = 0 THEN 0 ELSE Len(stk[i].captures)

\* captured_len: the length of the captures of the frame on top (the
\* caller handles the empty stack).
captured_len(stk) == Len(Last(stk).captures)

\* pop_captured(how_many) on a stack whose top has at least how_many
\* captures; an empty stack is left alone.
pop_captured(stk, how_many) ==
    IF stk = <<>> THEN stk
    ELSE [stk EXCEPT ![Len(stk)].captures = SubSeq(@, 1, how_many)]

\* frame.captures.len() - how_many is below zero.
pop_captured_underflows(stk, how_many) ==
    stk # <<>> /\ how_many > Len(Last(stk).captures)

\* fail: the test that ends the popping loop, `if let Ok(cursor) = f.cursor`.
fail_stops_at(f) == f.cursor.ok

\* fail: the loop that pops frames.  The result is the stack with the frame
\* the loop breaks on still on top, or the empty stack.
RECURSIVE fail_pop(_)
fail_pop(stk) ==
    IF stk = <<>> THEN stk
    ELSE IF fail_stops_at(Last(stk)) THEN stk
    ELSE fail_pop(Front(stk))

\* lr_grows with >= for >: a Return that made no progress grows again.
lr_grows_or_equal(c, frame) == (~frame.result.ok) \/ c >= frame.result.pos

\* lr_grows without the comparison: only the first Return grows the seed.
lr_grows_once(c, frame) == ~frame.result.ok

\* lr_grows always false: the first Return takes the frame's unset result.
lr_grows_never(c, frame) == FALSE

\* inst_return: `frame.result.is_err() || cursor > frame.result.clone()?`
lr_grows(c, frame) == (~frame.result.ok) \/ c > frame.result.pos

\* lr_grown_entry without `entry.bound += 1`.
lr_grown_entry_same_bound(entry, c) ==
    LeftRecTableEntry(Ok(c), entry.precedence, entry.bound)

\* lr_grown_entry that leaves the entry as it was.
lr_grown_entry_unchanged(entry, c) == entry

\* lr_grown_entry with the position before the one the Return reached.
lr_grown_entry_behind(entry, c) ==
    LeftRecTableEntry(Ok(c - 1), entry.precedence, entry.bound + 1)

\* inst_return: the memo entry after a growth, entry.cursor = Ok(cursor);
\* entry.bound += 1; entry.precedence = entry.precedence.
lr_grown_entry(entry, c) ==
    LeftRecTableEntry(Ok(c), entry.precedence, entry.bound + 1)

\* lr_insert without the insertion.
lr_insert_missing(memo, key, precedence) == memo

\* inst_call with no memo entry: `self.lrmemo.insert(key, LeftRecTableEntry {
\* cursor: Err(Error::LeftRec), precedence, bound: 0 })`
lr_insert(memo, key, precedence) ==
    (key :> LeftRecTableEntry(Err(ELeftRec), precedence, 0)) @@ memo

\* lr_rejects without the comparison: every call on a grown entry is a hit.
lr_rejects_never(precedence, entry) == FALSE

\* inst_call on a memo entry with a position: `precedence < entry.precedence`
lr_rejects(precedence, entry) == precedence < entry.precedence

----------------------------------------------------------------------------
\* VM::new(program), then `self.source = input.chars().collect()`.

Init ==
    /\ program \in ProgramNames
    /\ source \in Strings(Alphabet(program), MaxLen)
    /\ cursor = Ok(0)
    /\ ffp = 0
    /\ program_counter = 0
    /\ stack = <<>>
    /\ lrmemo = [key \in {} |-> LeftRecTableEntry(Ok(0), 0, 0)]
    /\ accumulator = None
    /\ status = "running"
    /\ error = NoError
    /\ parser_source = <<>>
    /\ parser_cursor = 0
    /\ parser_ffp = 0
    /\ parser_call = <<>>
    /\ parser_out = <<>>

\* program_counter is an index of the code vector.  A usize that wrapped
\* below zero is kept as the negative number: it is out of range as well.
pc_in_range == program_counter >= 0 /\ program_counter < Len(code)

\* The instruction the loop dispatches on.
instruction == IF cursor.ok THEN code[program_counter + 1] ELSE IFail

\* The loop is about to dispatch an instruction with this opcode.
Dispatch(op) == status = "running" /\ pc_in_range /\ instruction.op = op

\* run returns Err(e).
ReturnErr(e) == status' = "err" /\ error' = e

\* A subtraction on usize went below zero: a panic where overflow checks
\* are compiled in.
Panic == status' = "panic" /\ error' = NoError

\* fail: the error recorded, the cursor's error or Error::Fail, with the
\* cursor always taken for a position.
fail_error_generic(c) == EFail

\* fail: `match self.cursor.clone() { Err(e) => e, Ok(_) => Error::Fail }`
fail_error(c) == IF c.ok THEN EFail ELSE c.err

\* fail(), also reached from inst_call.
fail ==
    LET e == fail_error(cursor)
        s == fail_pop(stack)
    IN IF s = <<>>
       THEN /\ stack' = <<>>
            /\ cursor' = Err(e)
            /\ ReturnErr(e)
            /\ UNCHANGED program_counter
       ELSE LET frame == Last(s)
                rest == Front(s)
            IN IF pop_captured_underflows(rest, frame.capture)
               THEN \E checked \in BOOLEAN :
                      /\ cursor' = Ok(frame.cursor.pos)
                      /\ program_counter' = frame.program_counter
                      /\ IF checked
                         THEN stack' = rest /\ Panic
                         ELSE /\ stack' = pop_captured(rest, 0)
                              /\ UNCHANGED <<status, error>>
               ELSE /\ cursor' = Ok(frame.cursor.pos)
                    /\ program_counter' = frame.program_counter
                    /\ stack' = pop_captured(rest, frame.capture)
                    /\ UNCHANGED <<status, error>>

\* Overflow taken for a matching failure: it goes through fail().
Overflow_backtracks ==
    /\ status = "running"
    /\ ~pc_in_range
    /\ fail
    /\ UNCHANGED <<program, source, ffp, lrmemo, accumulator>>
    /\ UNCHANGED parser_vars

\* `if self.program_counter >= self.program.code.len()`
Overflow ==
    /\ status = "running"
    /\ ~pc_in_range
    /\ ReturnErr(EOverflow)
    /\ UNCHANGED <<program, source, cursor, ffp, program_counter, stack,
                   lrmemo, accumulator>>
    /\ UNCHANGED parser_vars

InstHalt ==
    /\ Dispatch("Halt")
    /\ status' = "ok"
    /\ UNCHANGED <<program, source, cursor, ffp, program_counter, stack,
                   lrmemo, accumulator, error>>
    /\ UNCHANGED parser_vars

\* Consume without the assignment of the accumulator.
Consume_silent ==
    /\ UNCHANGED accumulator
    /\ cursor' = Ok(cursor.pos + 1)
    /\ ffp' = advance_ffp(cursor.pos + 1, ffp)
    /\ program_counter' = program_counter + 1

\* The success arm shared by Any and Char.
Consume ==
    /\ accumulator' = Some(Chr(source[cursor.pos + 1]))
    /\ cursor' = Ok(cursor.pos + 1)
    /\ ffp' = advance_ffp(cursor.pos + 1, ffp)
    /\ program_counter' = program_counter + 1

InstAny ==
    /\ Dispatch("Any")
    /\ IF cursor.pos >= Len(source)
       THEN /\ cursor' = Err(EEOF)
            /\ UNCHANGED <<accumulator, ffp, program_counter>>
       ELSE Consume
    /\ UNCHANGED <<program, source, stack, lrmemo, status, error>>
    /\ UNCHANGED parser_vars

InstChar ==
    /\ Dispatch("Char")
    /\ IF cursor.pos >= Len(source)
       THEN /\ cursor' = Err(EEOF)
            /\ UNCHANGED <<accumulator, ffp, program_counter>>
       ELSE IF source[cursor.pos + 1] # instruction.c
       THEN /\ cursor' = Err(EMatching(instruction.c, source[cursor.pos + 1]))
            /\ UNCHANGED <<accumulator, ffp, program_counter>>
       ELSE Consume
    /\ UNCHANGED <<program, source, stack, lrmemo, status, error>>
    /\ UNCHANGED parser_vars

InstChoice ==
    /\ Dispatch("Choice")
    /\ IF stack = <<>>
       THEN /\ ReturnErr(EOverflow)
            /\ UNCHANGED <<stack, program_counter>>
       ELSE /\ stack' = Append(stack,
                          new_backtrack(cursor.pos,
                                        program_counter + instruction.n,
                                        captured_len(stack)))
            /\ program_counter' = program_counter + 1
            /\ UNCHANGED <<status, error>>
    /\ UNCHANGED <<program, source, cursor, ffp, lrmemo, accumulator>>
    /\ UNCHANGED parser_vars

\* Commit without the pop.
commit_pop_missing(stk) == stk

\* Commit, CommitB: `self.stack.pop();` the Option it returns is dropped.
commit_pop(stk) == IF stk = <<>> THEN stk ELSE Front(stk)

\* commit_target with the offset counted from the next instruction.
commit_target_next(pc, offset) == pc + offset + 1

\* Commit: `self.program_counter += offset`
commit_target(pc, offset) == pc + offset

\* commit_back_target with the offset counted from the next instruction.
commit_back_target_next(pc, offset) == pc - offset + 1

\* CommitB: `self.program_counter -= offset`
commit_back_target(pc, offset) == pc - offset

InstCommit ==
    /\ Dispatch("Commit")
    /\ stack' = commit_pop(stack)
    /\ program_counter' = commit_target(program_counter, instruction.n)
    /\ UNCHANGED <<program, source, cursor, ffp, lrmemo, accumulator,
                   status, error>>
    /\ UNCHANGED parser_vars

InstCommitB ==
    /\ Dispatch("CommitB")
    /\ stack' = commit_pop(stack)
    /\ IF instruction.n > program_counter
       THEN \E checked \in BOOLEAN :
              IF checked
              THEN Panic /\ UNCHANGED program_counter
              ELSE /\ program_counter' =
                          commit_back_target(program_counter, instruction.n)
                   /\ UNCHANGED <<status, error>>
       ELSE /\ program_counter' =
                   commit_back_target(program_counter, instruction.n)
            /\ UNCHANGED <<status, error>>
    /\ UNCHANGED <<program, source, cursor, ffp, lrmemo, accumulator>>
    /\ UNCHANGED parser_vars

\* Fail that evicts the memo entries that have grown.
InstFail_evicts ==
    /\ Dispatch("Fail")
    /\ fail
    /\ lrmemo' = [key \in {k \in DOMAIN lrmemo : ~lrmemo[k].cursor.ok} |->
                     lrmemo[key]]
    /\ UNCHANGED <<program, source, ffp, accumulator>>
    /\ UNCHANGED parser_vars

\* Fail that also clears the memo table.
InstFail_forgets ==
    /\ Dispatch("Fail")
    /\ fail
    /\ lrmemo' = [key \in {} |-> LeftRecTableEntry(Ok(0), 0, 0)]
    /\ UNCHANGED <<program, source, ffp, accumulator>>
    /\ UNCHANGED parser_vars

\* Instruction::Fail, in the code or put in place of the instruction at pc
\* because the cursor is an error.
InstFail ==
    /\ Dispatch("Fail")
    /\ fail
    /\ UNCHANGED <<program, source, ffp, lrmemo, accumulator>>
    /\ UNCHANGED parser_vars

InstJump ==
    /\ Dispatch("Jump")
    /\ program_counter' = instruction.n
    /\ UNCHANGED <<program, source, cursor, ffp, stack, lrmemo, accumulator,
                   status, error>>
    /\ UNCHANGED parser_vars

inst_call(address, precedence) ==
    LET key == <<address, cursor.pos>>
    IN IF precedence = 0
       THEN /\ stack' = Append(stack,
                          new_call(program_counter + 1, address, precedence))
            /\ program_counter' = address
            /\ UNCHANGED <<cursor, lrmemo, status, error>>
       ELSE IF key \notin DOMAIN lrmemo
       THEN /\ stack' = Append(stack,
                          new_lrcall(cursor.pos, program_counter + 1,
                                     address, precedence))
            /\ program_counter' = address
            /\ lrmemo' = lr_insert(lrmemo, key, precedence)
            /\ UNCHANGED <<cursor, status, error>>
       ELSE IF ~lrmemo[key].cursor.ok
       THEN fail /\ UNCHANGED lrmemo
       ELSE IF lr_rejects(precedence, lrmemo[key])
       THEN fail /\ UNCHANGED lrmemo
       ELSE /\ cursor' = Ok(lrmemo[key].cursor.pos)
            /\ program_counter' = program_counter + 1
            /\ UNCHANGED <<stack, lrmemo, status, error>>

InstCall ==
    /\ Dispatch("Call")
    /\ inst_call(program_counter + instruction.n, instruction.k)
    /\ UNCHANGED <<program, source, ffp, accumulator>>
    /\ UNCHANGED parser_vars

InstCallB ==
    /\ Dispatch("CallB")
    /\ IF instruction.n > program_counter
       THEN \E checked \in BOOLEAN :
              IF checked
              THEN Panic /\ UNCHANGED <<cursor, program_counter, stack,
                                        lrmemo>>
              ELSE inst_call(program_counter - instruction.n, instruction.k)
       ELSE inst_call(program_counter - instruction.n, instruction.k)
    /\ UNCHANGED <<program, source, ffp, accumulator>>
    /\ UNCHANGED parser_vars

inst_return ==
    IF stack = <<>>
    THEN /\ ReturnErr(EOverflow)
         /\ UNCHANGED <<cursor, program_counter, stack, lrmemo, accumulator>>
    ELSE LET frame == Last(stack)
             key == <<frame.address, frame.cursor.pos>>
         IN IF frame.precedence = 0
            THEN /\ stack' = Front(stack)
                 /\ program_counter' = frame.program_counter
                 /\ accumulator' =
                        Some(Node(NameOf(frame.address), frame.captures))
                 /\ UNCHANGED <<cursor, lrmemo, status, error>>
            ELSE IF lr_grows(cursor.pos, frame)
            THEN /\ stack' = [stack EXCEPT
                                 ![Len(stack)].result = Ok(cursor.pos)]
                 /\ IF key \notin DOMAIN lrmemo
                    THEN /\ ReturnErr(EFail)
                         /\ UNCHANGED <<cursor, program_counter, lrmemo>>
                    ELSE /\ lrmemo' = [lrmemo EXCEPT ![key] =
                                          lr_grown_entry(@, cursor.pos)]
                         /\ cursor' = frame.cursor
                         /\ program_counter' = frame.address
                         /\ UNCHANGED <<status, error>>
                 /\ UNCHANGED accumulator
            ELSE /\ cursor' = frame.result
                 /\ program_counter' = frame.program_counter
                 /\ stack' = Front(stack)
                 /\ UNCHANGED <<lrmemo, accumulator, status, error>>

InstReturn ==
    /\ Dispatch("Return")
    /\ inst_return
    /\ UNCHANGED <<program, source, ffp>>
    /\ UNCHANGED parser_vars

\* Capture that raises an error on an empty accumulator.
InstCapture_strict ==
    /\ Dispatch("Capture")
    /\ IF accumulator # None
       THEN /\ stack' = capture(stack, accumulator[1])
            /\ program_counter' = program_counter + 1
            /\ UNCHANGED <<status, error>>
       ELSE /\ ReturnErr(EFail)
            /\ UNCHANGED <<stack, program_counter>>
    /\ accumulator' = None
    /\ UNCHANGED <<program, source, cursor, ffp, lrmemo>>
    /\ UNCHANGED parser_vars

\* Capture that reads the accumulator without taking the value out of it.
InstCapture_keeps ==
    /\ Dispatch("Capture")
    /\ IF accumulator # None
       THEN stack' = capture(stack, accumulator[1])
       ELSE UNCHANGED stack
    /\ program_counter' = program_counter + 1
    /\ UNCHANGED <<program, source, cursor, ffp, lrmemo, accumulator,
                   status, error>>
    /\ UNCHANGED parser_vars

InstCapture ==
    /\ Dispatch("Capture")
    /\ IF accumulator # None
       THEN stack' = capture(stack, accumulator[1])
       ELSE UNCHANGED stack
    /\ accumulator' = None
    /\ program_counter' = program_counter + 1
    /\ UNCHANGED <<program, source, cursor, ffp, lrmemo, status, error>>
    /\ UNCHANGED parser_vars

Next ==
    \/ Overflow
    \/ InstHalt
    \/ InstAny
    \/ InstChar
    \/ InstChoice
    \/ InstCommit
    \/ InstCommitB
    \/ InstFail
    \/ InstJump
    \/ InstCall
    \/ InstCallB
    \/ InstReturn
    \/ InstCapture

Spec == Init /\ [][Next]_vars

\* The dispatch loop never pauses: a running match always takes its next
\* step.
FairSpec == Spec /\ WF_vars(Next)

----------------------------------------------------------------------------
\* Vocabulary of the properties below.

\* run() has returned.
Done == status # "running"

\* The input is n(+n)^k.
IsSum(s) ==
    /\ Len(s) % 2 = 1
    /\ \A i \in 1..Len(s) : s[i] = (IF i % 2 = 1 THEN "n" ELSE "+")

\* The address the Call or CallB about to run calls.
CallTarget ==
    IF instruction.op = "Call"
    THEN program_counter + instruction.n
    ELSE program_counter - instruction.n

\* The loop is about to dispatch a call with precedence > 0 that finds a
\* memo entry for (address, cursor).
LrCallOnEntry ==
    /\ status = "running" /\ pc_in_range
    /\ instruction.op \in {"Call", "CallB"}
    /\ instruction.k > 0
    /\ <<CallTarget, cursor.pos>> \in DOMAIN lrmemo

\* The next step is failure propagation: a Fail instruction, the Fail put
\* in place of an instruction because the cursor is an error, or a
\* left-recursive call that its memo entry rejects.
FailureStep ==
    /\ status = "running" /\ pc_in_range
    /\ \/ instruction.op = "Fail"
       \/ /\ LrCallOnEntry
          /\ LET entry == lrmemo[<<CallTarget, cursor.pos>>]
             IN (~entry.cursor.ok) \/ instruction.k < entry.precedence

\* The characters an input prefix spells, as captured values.
Spelled(n) == [i \in 1..n |-> Chr(source[i])]

\* The captures of the innermost Call frame, <<>> when there is none.
InnermostCaptures ==
    LET i == capture_index(stack, Len(stack))
    IN IF i = 0 THEN <<>> ELSE stack[i].captures

----------------------------------------------------------------------------
\* C1: for G <- G '+' 'n' / 'n' at precedence 1 (lrvar_1), on every input
\* n(+n)^k the run terminates successfully with the cursor at the end of
\* the input, 2k+1.
C1_LrvarMatchesWholeSum ==
    (program = "lrvar_1" /\ IsSum(source))
        ~> (status = "ok" /\ cursor = Ok(Len(source)))

C1_Witness ==
    /\ program = "lrvar_1"
    /\ source = <<"n", "+", "n", "+", "n">>
    /\ status = "ok"
    /\ cursor = Ok(5)
    /\ lrmemo[<<2, 0>>].bound = 3

\* C2: failure propagation stops only at a Backtrack frame: the frame it
\* restores is never a Call frame, left-recursive or not, and with no
\* Backtrack frame left the match ends with the error.
C2_FailureStopsOnlyAtBacktrack ==
    [][FailureStep =>
          \/ status' = "err" /\ stack' = <<>>
          \/ /\ Len(stack') < Len(stack)
             /\ stack[Len(stack') + 1].ftype = "Backtrack"]_vars

\* C3: backtrack purity at any nesting depth of choices: a failed
\* alternative leaves no captures behind, so in the grammars that capture
\* every character they match the children of the returned node spell
\* exactly the matched input ('abacate' / 'abada' on "abada" gives
\* a,b,a,d,a).
C3_BacktrackPurity ==
    (program \in {"capture_1", "nested_choice"} /\ status = "ok")
        => accumulator = Some(Node("G", Spelled(cursor.pos)))

\* C4: Return on a Call frame with precedence 0 pops exactly that frame,
\* continues at its return pc and leaves one Node in the accumulator, named
\* names[frame.address] ("" without a name) with the frame's captures in
\* order as children; captured by the parent it is one child of the
\* parent's Node (G <- D gives Node G [Node D [Chr]]).
C4_OrdinaryReturn ==
    /\ [][(/\ Dispatch("Return")
           /\ stack # <<>>
           /\ Last(stack).ftype = "Call"
           /\ Last(stack).precedence = 0)
          => LET frame == Last(stack)
                 name == IF frame.address \in DOMAIN names
                         THEN names[frame.address] ELSE ""
             IN /\ stack' = Front(stack)
                /\ program_counter' = frame.program_counter
                /\ accumulator' = Some(Node(name, frame.captures))]_vars
    /\ []((program = "capture_2" /\ status = "ok")
            => accumulator =
                 Some(Node("G", <<Node("D", <<Chr(source[1])>>)>>)))
    /\ []((program = "capture_1" /\ status = "ok")
            => accumulator = Some(Node("G", Spelled(5))))
    /\ []((program = "ch_1" /\ status = "ok")
            => accumulator = Some(Node("", <<>>)))

C4_Witness ==
    /\ program = "capture_2"
    /\ source = <<"1">>
    /\ status = "ok"
    /\ accumulator = Some(Node("G", <<Node("D", <<Chr("1")>>)>>))

\* C5: the final, non-growing Return of a left-recursive call leaves in
\* the accumulator a Node labelled with the production's name and built
\* from the call frame's captures.
C5_FinalLrReturnYieldsNode ==
    [][(/\ Dispatch("Return")
        /\ stack # <<>>
        /\ Last(stack).precedence > 0
        /\ ~lr_grows(cursor.pos, Last(stack)))
       => LET frame == Last(stack)
          IN accumulator' =
                 Some(Node(NameOf(frame.address), frame.captures))]_vars

\* C6: the memo table is monotonic: no step removes a key, and a step that
\* changes an entry raises its bound by exactly 1 and moves its cursor
\* from LeftRec to a position or from a position to a greater one.
C6_MemoMonotonic ==
    [][\A key \in DOMAIN lrmemo :
          /\ key \in DOMAIN lrmemo'
          /\ \/ lrmemo'[key] = lrmemo[key]
             \/ /\ lrmemo'[key].bound = lrmemo[key].bound + 1
                /\ lrmemo'[key].precedence = lrmemo[key].precedence
                /\ lrmemo'[key].cursor.ok
                /\ IF lrmemo[key].cursor.ok
                   THEN lrmemo'[key].cursor.pos > lrmemo[key].cursor.pos
                   ELSE lrmemo[key].cursor = Err(ELeftRec)]_vars

C6_Witness ==
    \E key \in DOMAIN lrmemo :
        /\ lrmemo[key].bound = 3
        /\ lrmemo[key].cursor = Ok(5)

\* C7: a cursor that is a position lies in 0..|input| and ffp is at least
\* it; ffp never exceeds |input| and never decreases.
C7_CursorAndFfpInRange ==
    /\ [](cursor.ok => /\ 0 <= cursor.pos
                       /\ cursor.pos <= Len(source)
                       /\ ffp >= cursor.pos)
    /\ [](ffp <= Len(source))
    /\ [][ffp' >= ffp]_vars

C7_Witness ==
    /\ status = "ok"
    /\ cursor.ok
    /\ cursor.pos > 0
    /\ ffp > cursor.pos

\* C8: when failure propagation empties the stack, run returns the error
\* the cursor held (EOF or Matching), or Fail when the cursor was a
\* position, the cursor is left holding that error and ffp is untouched
\* ('a' / 'b' on "c": the mismatch against 'b', ffp 0).
C8_EmptyStackReturnsLastError ==
    /\ [][(FailureStep /\ status' = "err")
          => /\ error' = (IF cursor.ok THEN EFail ELSE cursor.err)
             /\ error'.kind \in {"EOF", "Matching", "Fail"}
             /\ cursor' = Err(error')
             /\ stack' = <<>>
             /\ ffp' = ffp]_vars
    /\ []((program = "ord_1" /\ source = <<"c">> /\ Done)
            => /\ status = "err"
               /\ error = EMatching("b", "c")
               /\ cursor = Err(error)
               /\ ffp = 0)
    /\ []((program = "any_1" /\ Len(source) < 3 /\ Done)
            => /\ status = "err"
               /\ error = EEOF
               /\ cursor = Err(error)
               /\ ffp = Len(source))

C8_Witness ==
    /\ program = "ord_1"
    /\ source = <<"c">>
    /\ status = "err"
    /\ error = EMatching("b", "c")
    /\ stack = <<>>

\* C9: a second left-recursive call to the same address at the same
\* cursor, made with the same precedence after the first has come back, is
\* a memo hit: it pushes no frame, sets the cursor to the memoized position
\* and continues at pc + 1.
C9_SecondCallIsMemoHit ==
    [][(/\ LrCallOnEntry
        /\ instruction.k >= lrmemo[<<CallTarget, cursor.pos>>].precedence
        /\ ~\E i \in 1..Len(stack) :
               /\ stack[i].precedence > 0
               /\ stack[i].address = CallTarget
               /\ stack[i].cursor = cursor)
       => /\ stack' = stack
          /\ program_counter' = program_counter + 1
          /\ cursor'.ok
          /\ cursor' = lrmemo[<<CallTarget, cursor.pos>>].cursor]_vars

\* The programs that are encodings of PEG operators.
PegPrograms ==
    ProgramNames \ {"no_halt", "overrun", "bare_commit", "bare_commitb",
                    "bare_return"}

\* The Backtrack frames the step removes from the stack.
RemovedBacktracks ==
    {i \in 1..Len(stack) : stack[i].ftype = "Backtrack" /\ i > Len(stack')}

\* What a step does to the Backtrack frames, for C10.
BacktrackRemoval ==
    /\ \A i \in 1..Len(stack) :
           i <= Len(stack') => stack'[i].ftype = stack[i].ftype
    /\ RemovedBacktracks # {} =>
           /\ RemovedBacktracks = {Len(stack') + 1}
           /\ (instruction.op \in {"Commit", "CommitB"} \/ FailureStep)
    /\ instruction.op \in {"Commit", "CommitB"} =>
           RemovedBacktracks = {Len(stack)}

\* C10: in the programs built from the PEG encodings, Return runs with a
\* Call frame on top and Commit/CommitB with a Backtrack frame on top; a
\* step removes at most one Backtrack frame, the topmost frame it removes,
\* and only a Commit, a CommitB or a failure restoration removes one, so
\* no Call frame is popped from under a Backtrack frame.
C10_ChoiceCommitWellFormed ==
    /\ [](program \in PegPrograms =>
            /\ Dispatch("Return") =>
                   (stack # <<>> /\ Last(stack).ftype = "Call")
            /\ (Dispatch("Commit") \/ Dispatch("CommitB")) =>
                   (stack # <<>> /\ Last(stack).ftype = "Backtrack"))
    /\ [][(program \in PegPrograms) => BacktrackRemoval]_vars

C10_Witness ==
    /\ program = "nested_choice"
    /\ Dispatch("Return")
    /\ cursor = Ok(3)
    /\ Len(stack) = 1

\* C11: with pc outside the code vector the very next step makes run
\* return Overflow: no frame is popped and neither the cursor nor pc is
\* restored, whatever frames are on the stack.
C11_OverflowNotCaught ==
    [][(status = "running" /\ ~pc_in_range)
       => /\ status' = "err"
          /\ error' = EOverflow
          /\ stack' = stack
          /\ cursor' = cursor
          /\ program_counter' = program_counter]_vars

C11_Witness ==
    /\ status = "err"
    /\ error = EOverflow
    /\ ~pc_in_range
    /\ stack # <<>>
    /\ Last(stack).ftype = "Backtrack"

\* C12: stack underflow is fatal: Commit, CommitB or Return dispatched on
\* an empty stack ends the match with Overflow.
C12_UnderflowIsFatal ==
    [][((Dispatch("Commit") \/ Dispatch("CommitB") \/ Dispatch("Return"))
        /\ stack = <<>>)
       => (status' = "err" /\ error' = EOverflow)]_vars

\* The length of the maximal leading run of the character c in s.
RECURSIVE LeadingRun(_, _)
LeadingRun(s, c) ==
    IF s = <<>> \/ s[1] # c THEN 0 ELSE 1 + LeadingRun(Tail(s), c)

\* C13: 'a'* (rep_1) succeeds on every input with the cursor and ffp at the
\* length of the maximal leading run of 'a', and Return finds no Backtrack
\* frame left on the stack.
C13_KleeneStar ==
    /\ []((program = "rep_1" /\ Done)
            => /\ status = "ok"
               /\ cursor = Ok(LeadingRun(source, "a"))
               /\ ffp = LeadingRun(source, "a"))
    /\ []((program = "rep_1" /\ Dispatch("Return"))
            => \A i \in 1..Len(stack) : stack[i].ftype = "Call")
    /\ ((program = "rep_1") ~> (status = "ok"))

C13_Witness ==
    /\ program = "rep_1"
    /\ source = <<"a", "a", "b">>
    /\ status = "ok"
    /\ cursor = Ok(2)
    /\ ffp = 2

\* C14: 'a' / 'b' (ord_1) succeeds with cursor 1 and ffp 1 exactly when
\* the input starts with 'a' or 'b'; otherwise it fails with the error of
\* the second alternative and ffp 0; the second alternative is tried from
\* the entry cursor and only after the first has failed.
C14_OrderedChoice ==
    /\ []((program = "ord_1" /\ Done)
            => IF source # <<>> /\ source[1] \in {"a", "b"}
               THEN status = "ok" /\ cursor = Ok(1) /\ ffp = 1
               ELSE /\ status = "err"
                    /\ error = (IF source = <<>> THEN EEOF
                                ELSE [kind |-> "Matching", expected |-> "b",
                                      got |-> source[1]])
                    /\ cursor = Err(error)
                    /\ ffp = 0)
    /\ []((program = "ord_1" /\ Dispatch("Char") /\ program_counter = 5)
            => /\ cursor = Ok(0)
               /\ (source = <<>> \/ source[1] # "a"))
    /\ ((program = "ord_1") ~> Done)

C14_Witness ==
    /\ program = "ord_1"
    /\ source = <<"b">>
    /\ status = "ok"
    /\ cursor = Ok(1)
    /\ ffp = 1

\* The character the not-predicate of the program tests.
NotChar == IF program = "not_1" THEN "a" ELSE "f"

\* C15: !p as Choice(4); p; Commit(1); Fail (not_1, not_2): when p fails
\* the predicate succeeds with the cursor where it was and ffp 0; when p
\* matches it fails with Fail and ffp 1; the instruction after the
\* predicate never sees an advanced cursor.
C15_NotPredicate ==
    /\ []((program \in {"not_1", "not_2"} /\ Done)
            => IF source # <<>> /\ source[1] = NotChar
               THEN /\ status = "err"
                    /\ error = EFail
                    /\ cursor = Err(EFail)
                    /\ ffp = 1
               ELSE status = "ok" /\ cursor = Ok(0) /\ ffp = 0)
    /\ []((program \in {"not_1", "not_2"} /\ Dispatch("Return"))
            => cursor = Ok(0))
    /\ ((program \in {"not_1", "not_2"}) ~> Done)

C15_Witness ==
    /\ program = "not_2"
    /\ source = <<"f", "o", "o">>
    /\ status = "err"
    /\ error = EFail
    /\ ffp = 1

\* C16: Char(c) and Any at cursor i: past the end of the input the cursor
\* becomes EOF; on a character other than c, Char makes it the Matching
\* error naming c and the character found; both leave pc, ffp, stack and
\* accumulator alone.  Otherwise the accumulator becomes Chr(input[i]), the
\* cursor i+1, ffp max(ffp, i+1) and pc pc+1 (G <- 'a' on "b": the
\* mismatch, ffp 0).
C16_CharAndAny ==
    /\ [][(Dispatch("Char") \/ Dispatch("Any"))
          => LET i == cursor.pos
             IN IF i >= Len(source)
                THEN /\ cursor' = Err(EEOF)
                     /\ UNCHANGED <<program_counter, ffp, stack, accumulator>>
                ELSE IF instruction.op = "Char" /\ instruction.c # source[i + 1]
                THEN /\ cursor' = Err([kind |-> "Matching",
                                       expected |-> instruction.c,
                                       got |-> source[i + 1]])
                     /\ UNCHANGED <<program_counter, ffp, stack, accumulator>>
                ELSE /\ accumulator' = Some(Chr(source[i + 1]))
                     /\ cursor' = Ok(i + 1)
                     /\ ffp' = (IF i + 1 > ffp THEN i + 1 ELSE ffp)
                     /\ program_counter' = program_counter + 1
                     /\ stack' = stack]_vars
    /\ []((program = "ch_1" /\ Done /\ source # <<>> /\ source[1] = "b")
            => /\ status = "err"
               /\ error = [kind |-> "Matching", expected |-> "a", got |-> "b"]
               /\ ffp = 0)

C16_Witness ==
    /\ program = "ch_1"
    /\ status = "running"
    /\ program_counter = 3
    /\ cursor = Ok(1)
    /\ ffp = 1
    /\ accumulator = Some(Chr("a"))

\* How many leading characters of s fit D '+' D with D <- '0' / '1'.
VarPrefix(s) ==
    IF Len(s) >= 1 /\ s[1] \in {"0", "1"}
    THEN IF Len(s) >= 2 /\ s[2] = "+"
         THEN IF Len(s) >= 3 /\ s[3] \in {"0", "1"} THEN 3 ELSE 2
         ELSE 1
    ELSE 0

\* C17: G <- D '+' D, D <- '0' / '1' (var_1) succeeds with cursor 3 and
\* ffp 3 exactly when the input starts with d '+' d; otherwise it fails
\* with the error of the last alternative tried and ffp the number of
\* characters matched before the failing position ("1+2": the mismatch
\* against '1', ffp 2); every Return resumes right after its Call.
C17_NestedCalls ==
    /\ []((program = "var_1" /\ Done)
            => LET m == VarPrefix(source)
               IN IF m = 3
                  THEN status = "ok" /\ cursor = Ok(3) /\ ffp = 3
                  ELSE /\ status = "err"
                       /\ ffp = m
                       /\ error =
                            (IF Len(source) = m THEN EEOF
                             ELSE EMatching(IF m = 1 THEN "+" ELSE "1",
                                            source[m + 1]))
                       /\ cursor = Err(error))
    /\ [][(program = "var_1" /\ Dispatch("Return"))
          => /\ Len(stack') = Len(stack) - 1
             /\ program_counter' >= 1
             /\ code[program_counter'].op = "Call"]_vars
    /\ ((program = "var_1") ~> Done)

C17_Witness ==
    /\ program = "var_1"
    /\ source = <<"1", "+", "2">>
    /\ status = "err"
    /\ error = EMatching("1", "2")
    /\ ffp = 2

\* The values an instruction at pc can give pc, its own targets and the
\* return pc and restoration pc it stores in a frame.
StepTargets(c, pc) ==
    LET ins == c[pc + 1]
    IN CASE ins.op \in {"Any", "Char", "Capture"} -> {pc + 1}
         [] ins.op = "Choice" -> {pc + 1, pc + ins.n}
         [] ins.op = "Commit" -> {pc + ins.n}
         [] ins.op = "CommitB" -> {pc - ins.n}
         [] ins.op = "Jump" -> {ins.n}
         [] ins.op = "Call" -> {pc + 1, pc + ins.n}
         [] ins.op = "CallB" -> {pc + 1, pc - ins.n}
         [] OTHER -> {}

\* No instruction of the program names an address outside its code vector.
Closed(p) ==
    LET c == Programs(p).code
    IN \A pc \in 0..(Len(c) - 1) : StepTargets(c, pc) \subseteq 0..(Len(c) - 1)

\* C18 as stated: pc is within [0, |code|) in every state of a running
\* match, for every program.
C18_PcAlwaysInRange == status = "running" => pc_in_range

\* C18, amended: in a program none of whose instructions names an address
\* outside the code vector, pc is within [0, |code|) in every state of a
\* running match; in any program, a pc outside the code vector makes the
\* next turn of the loop return Overflow.
C18_PcInRangeInClosedPrograms ==
    /\ []((Closed(program) /\ status = "running") => pc_in_range)
    /\ [][(status = "running" /\ ~pc_in_range)
          => (status' = "err" /\ error' = EOverflow)]_vars

C18_Witness ==
    /\ program = "nested_choice"
    /\ Closed(program)
    /\ status = "running"
    /\ cursor = Ok(3)
    /\ program_counter = Len(code) - 1

\* The next step is a call with precedence > 0 that finds no memo entry.
NewLrCall ==
    /\ status = "running" /\ pc_in_range
    /\ instruction.op \in {"Call", "CallB"}
    /\ instruction.k > 0
    /\ <<CallTarget, cursor.pos>> \notin DOMAIN lrmemo

\* What a step does to the keys of the memo table, for C19.
MemoKeysStep ==
    /\ DOMAIN lrmemo' =
          DOMAIN lrmemo \cup
          (IF NewLrCall THEN {<<CallTarget, cursor.pos>>} ELSE {})
    /\ NewLrCall <=>
          /\ Len(stack') = Len(stack) + 1
          /\ Last(stack').precedence > 0
          /\ Last(stack').address = CallTarget
          /\ Last(stack').cursor = cursor
    /\ ((Dispatch("Call") \/ Dispatch("CallB")) /\ instruction.k = 0) =>
          /\ lrmemo' = lrmemo
          /\ Len(stack') = Len(stack) + 1
          /\ Last(stack').precedence = 0
          /\ program_counter' = CallTarget
          /\ cursor' = cursor

\* C19: the memo table starts empty and gets the key (address, cursor)
\* exactly when a call with precedence > 0 to that address starts at that
\* cursor, and never loses one: it holds an entry for exactly the
\* left-recursive calls started in this match, those in progress included.
\* A call with precedence 0 pushes its frame whatever the table holds and
\* leaves the table alone.
C19_MemoKeysAreLrCalls ==
    /\ DOMAIN lrmemo = {}
    /\ [][MemoKeysStep]_vars
    /\ [](\A i \in 1..Len(stack) :
            stack[i].precedence > 0 =>
                <<stack[i].address, stack[i].cursor.pos>> \in DOMAIN lrmemo)

C19_Witness ==
    /\ program = "lr_mixed"
    /\ status = "running"
    /\ program_counter = 7
    /\ Len(stack) = 2
    /\ Last(stack).precedence = 0
    /\ Last(stack).address = 7
    /\ <<7, 0>> \in DOMAIN lrmemo
    /\ lrmemo[<<7, 0>>].cursor = Ok(3)

\* The programs with a left-recursive production.
LrPrograms ==
    {"lrvar_1", "lrvar_cap", "lr_twice", "lr_mixed", "lr_prec", "lr_bare"}

\* The Return about to run is on a left-recursive Call frame.
LrReturn ==
    Dispatch("Return") /\ stack # <<>> /\ Last(stack).precedence > 0

\* What a Return on a left-recursive frame does, for C20.
GrowthStep ==
    LrReturn =>
        LET frame == Last(stack)
            key == <<frame.address, frame.cursor.pos>>
        IN IF (~frame.result.ok) \/ cursor.pos > frame.result.pos
           THEN /\ Len(stack') = Len(stack)
                /\ program_counter' = frame.address
                /\ lrmemo'[key].bound = lrmemo[key].bound + 1
           ELSE /\ stack' = Front(stack)
                /\ program_counter' = frame.program_counter
                /\ cursor' = lrmemo[key].cursor
                /\ cursor'.ok
                /\ lrmemo' = lrmemo

\* C20: left-recursion growth terminates: a Return re-enters the
\* production only with a cursor strictly greater than the frame's previous
\* result, so no entry's bound exceeds |input| + 1; the first Return without
\* progress pops the frame and the call yields the memoized cursor; every
\* run of a left-recursive program ends.
C20_GrowthTerminates ==
    /\ [](\A key \in DOMAIN lrmemo :
            lrmemo[key].bound <= Len(source) + 1)
    /\ [][GrowthStep]_vars
    /\ ((program \in LrPrograms) ~> Done)

C20_Witness ==
    /\ program = "lrvar_cap"
    /\ status = "ok"
    /\ lrmemo[<<2, 0>>].bound = 3
    /\ cursor = lrmemo[<<2, 0>>].cursor
    /\ cursor = Ok(5)

\* C21: the LeftRec sentinel is found only in memo entries and in the
\* result of a left-recursive Call frame: the cursor of the machine is
\* never the LeftRec error, no frame's saved cursor is, and run never
\* returns LeftRec.
C21_LeftRecStaysInside ==
    /\ cursor.err # ELeftRec
    /\ error # ELeftRec
    /\ \A i \in 1..Len(stack) :
          /\ stack[i].cursor.err # ELeftRec
          /\ stack[i].result.err = ELeftRec =>
                (stack[i].ftype = "Call" /\ stack[i].precedence > 0)

\* The nested call of G has met the sentinel and failed; the alternative
\* 'n' is about to run with the sentinel still in the table and the frame.
C21_Witness ==
    /\ program = "lrvar_1"
    /\ status = "running"
    /\ program_counter = 7
    /\ cursor = Ok(0)
    /\ Len(stack) = 1
    /\ stack[1].result = Err(ELeftRec)
    /\ lrmemo[<<2, 0>>].cursor = Err(ELeftRec)

\* C22: Choice(off) pushes a Backtrack frame holding the cursor, pc + off
\* and the capture count of the innermost Call frame, whatever frame is on
\* top of the stack; it leaves the cursor, the accumulator, the memo table
\* and every capture list unchanged and increments pc.
C22_ChoiceSavesInnermostCount ==
    [][Dispatch("Choice")
       => /\ Len(stack') = Len(stack) + 1
          /\ Front(stack') = stack
          /\ Last(stack').ftype = "Backtrack"
          /\ Last(stack').cursor = cursor
          /\ Last(stack').program_counter = program_counter + instruction.n
          /\ Last(stack').capture = Len(InnermostCaptures)
          /\ program_counter' = program_counter + 1
          /\ UNCHANGED <<cursor, accumulator, lrmemo>>]_vars

\* What a call with precedence > 0 does on a memo entry that holds a
\* position, for C23.
PrecedenceGuardStep ==
    (LrCallOnEntry /\ lrmemo[<<CallTarget, cursor.pos>>].cursor.ok) =>
        LET entry == lrmemo[<<CallTarget, cursor.pos>>]
        IN IF instruction.k < entry.precedence
           THEN /\ \/ status' = "err" /\ stack' = <<>>
                   \/ /\ Len(stack') < Len(stack)
                      /\ program_counter' =
                             stack[Len(stack') + 1].program_counter
                      /\ cursor' = stack[Len(stack') + 1].cursor
                /\ lrmemo' = lrmemo
           ELSE /\ cursor' = Ok(entry.cursor.pos)
                /\ program_counter' = program_counter + 1
                /\ stack' = stack
                /\ lrmemo' = lrmemo
                /\ status' = "running"

\* What a step does to the precedences in the memo table, for C23.
PrecedenceKept ==
    \A key \in DOMAIN lrmemo' :
        IF key \in DOMAIN lrmemo
        THEN lrmemo'[key].precedence = lrmemo[key].precedence
        ELSE /\ instruction.op \in {"Call", "CallB"}
             /\ key = <<CallTarget, cursor.pos>>
             /\ lrmemo'[key].precedence = instruction.k

\* C23: a call with precedence k > 0 that finds a memo entry holding a
\* position c' fails when k is strictly lower than the entry's precedence;
\* otherwise it sets the cursor to c' and continues at pc + 1 without
\* pushing a frame.  The precedence of an entry is the k of the call that
\* created it and never changes.
C23_PrecedenceGuard ==
    /\ [][PrecedenceGuardStep]_vars
    /\ [][PrecedenceKept]_vars

\* G, memoized with precedence 2, has been refused to the call with
\* precedence 1 and given to the call with precedence 3.
C23_Witness ==
    /\ program = "lr_prec"
    /\ status = "running"
    /\ program_counter = 9
    /\ Len(stack) = 1
    /\ lrmemo[<<10, 0>>].precedence = 2
    /\ cursor = lrmemo[<<10, 0>>].cursor
    /\ cursor = Ok(3)

\* What a Return on a left-recursive frame does, in full, for C24.
LrReturnStep ==
    LrReturn =>
        LET frame == Last(stack)
            key == <<frame.address, frame.cursor.pos>>
        IN IF (~frame.result.ok) \/ cursor.pos > frame.result.pos
           THEN /\ stack' = [stack EXCEPT ![Len(stack)].result = cursor]
                /\ key \in DOMAIN lrmemo
                /\ lrmemo' =
                       [lrmemo EXCEPT ![key] =
                           [cursor |-> cursor,
                            precedence |-> lrmemo[key].precedence,
                            bound |-> lrmemo[key].bound + 1]]
                /\ cursor' = frame.cursor
                /\ cursor'.ok
                /\ program_counter' = frame.address
                /\ status' = "running"
           ELSE /\ stack' = Front(stack)
                /\ cursor' = frame.result
                /\ program_counter' = frame.program_counter
                /\ lrmemo' = lrmemo
                /\ status' = "running"

\* C24: Return on a left-recursive frame.  With the frame's result unset or
\* the cursor greater than it, the frame stays on the stack, its result and
\* the memo entry at (frame.address, entry cursor) become the cursor, the
\* bound grows by 1, the cursor is restored to the entry cursor and pc
\* becomes frame.address.  Otherwise exactly that frame is popped, the
\* cursor becomes frame.result, not the cursor the last iteration reached,
\* and pc becomes the return pc.
C24_LrReturn == [][LrReturnStep]_vars

\* "n+n": the third iteration reached cursor 1 only, the call yields 3.
C24_Witness ==
    /\ program = "lrvar_1"
    /\ source = <<"n", "+", "n">>
    /\ status = "running"
    /\ program_counter = 1
    /\ stack = <<>>
    /\ cursor = Ok(3)
    /\ lrmemo[<<2, 0>>] = LeftRecTableEntry(Ok(3), 1, 2)

\* The index of the Backtrack frame nearest to the top of the stack, 0 when
\* there is none.
RECURSIVE NearestBacktrack(_, _)
NearestBacktrack(stk, i) ==
    IF i = 0 THEN 0
    ELSE IF stk[i].ftype = "Backtrack" THEN i
    ELSE NearestBacktrack(stk, i - 1)

\* The call about to run is nested in a left-recursive call to the same
\* address at the same cursor that has not grown yet.
NestedInSeed ==
    /\ LrCallOnEntry
    /\ lrmemo[<<CallTarget, cursor.pos>>].cursor = Err(ELeftRec)
    /\ \E i \in 1..Len(stack) :
          /\ stack[i].precedence > 0
          /\ stack[i].address = CallTarget
          /\ stack[i].cursor = cursor
          /\ stack[i].result = Err(ELeftRec)

\* C25: the first call with precedence k > 0 at (address, cursor) pushes a
\* Call frame with the entry cursor and result LeftRec, sets pc to the
\* address and inserts the entry {LeftRec, k, 0}.  A call to the same
\* (address, cursor) nested in it before the first growth fails whatever
\* its precedence, and the failure unwinds to the nearest Backtrack frame.
C25_FirstLrCall ==
    /\ [][NewLrCall
          => /\ stack' = Append(stack,
                            [ftype |-> "Call", cursor |-> cursor,
                             result |-> Err(ELeftRec),
                             address |-> CallTarget,
                             precedence |-> instruction.k,
                             program_counter |-> program_counter + 1,
                             capture |-> 0, captures |-> <<>>])
             /\ program_counter' = CallTarget
             /\ lrmemo' =
                    (<<CallTarget, cursor.pos>> :>
                        [cursor |-> Err(ELeftRec),
                         precedence |-> instruction.k, bound |-> 0])
                    @@ lrmemo]_vars
    /\ [][NestedInSeed
          => LET b == NearestBacktrack(stack, Len(stack))
             IN IF b = 0
                THEN status' = "err" /\ stack' = <<>>
                ELSE /\ Len(stack') = b - 1
                     /\ program_counter' = stack[b].program_counter
                     /\ cursor' = stack[b].cursor
                     /\ status' = "running"]_vars

\* The index of the Call frame nearest to the top of the stack, 0 when
\* there is none.
RECURSIVE NearestCall(_, _)
NearestCall(stk, i) ==
    IF i = 0 THEN 0
    ELSE IF stk[i].ftype = "Call" THEN i
    ELSE NearestCall(stk, i - 1)

\* s is an initial part of t.
IsPrefix(s, t) == Len(s) <= Len(t) /\ s = SubSeq(t, 1, Len(s))

\* What a step does to the capture lists, for C26: a Capture with a value
\* appends it to the nearest Call frame and changes no other frame; any
\* other change of a list is a truncation; a new frame starts empty.
CaptureListsStep ==
    /\ (Dispatch("Capture") /\ accumulator # None) =>
          LET i == NearestCall(stack, Len(stack))
          IN /\ Len(stack') = Len(stack)
             /\ \A j \in 1..Len(stack) :
                   stack'[j] =
                      (IF j = i
                       THEN [stack[j] EXCEPT
                               !.captures = Append(@, accumulator[1])]
                       ELSE stack[j])
    /\ ~(Dispatch("Capture") /\ accumulator # None) =>
          \A j \in 1..Len(stack') :
             IF j <= Len(stack)
             THEN IsPrefix(stack'[j].captures, stack[j].captures)
             ELSE stack'[j].captures = <<>>

\* C26: Capture with a value in the accumulator appends it to the capture
\* list of the nearest Call frame from the top of the stack, skipping every
\* Backtrack frame, and to no other frame.  The capture lists of Backtrack
\* frames are empty in every state, and a Call frame's list only ever
\* receives values appended while it is the innermost Call frame.
C26_CaptureGoesToInnermostCall ==
    /\ [][CaptureListsStep]_vars
    /\ [](\A j \in 1..Len(stack) :
            stack[j].ftype = "Backtrack" => stack[j].captures = <<>>)

\* Two values captured by G under two Backtrack frames.
C26_Witness ==
    /\ program = "nested_choice"
    /\ Len(stack) = 3
    /\ stack[1].ftype = "Call"
    /\ stack[1].captures = <<Chr("a"), Chr("b")>>
    /\ stack[2].ftype = "Backtrack"
    /\ stack[3].ftype = "Backtrack"
    /\ accumulator = None
    /\ program_counter = 8

\* C27: Capture with an empty accumulator is a silent no-op: only pc
\* changes, by one; the capture lists, the stack, the cursor, the memo table
\* and ffp stay as they are, the accumulator stays empty and the match goes
\* on without an error.
C27_EmptyCaptureIsNoOp ==
    [][(Dispatch("Capture") /\ accumulator = None)
       => /\ program_counter' = program_counter + 1
          /\ accumulator' = None
          /\ status' = "running"
          /\ UNCHANGED <<stack, cursor, lrmemo, ffp, error>>]_vars

\* The Capture at the head of G has run with nothing to capture.
C27_Witness ==
    /\ program = "cap_twice"
    /\ status = "running"
    /\ program_counter = 3
    /\ accumulator = None
    /\ Len(stack) = 1
    /\ stack[1].captures = <<>>
    /\ cursor = Ok(0)

\* The number of values in the capture lists of a stack.
RECURSIVE TotalCaptures(_)
TotalCaptures(stk) ==
    IF stk = <<>> THEN 0
    ELSE Len(Last(stk).captures) + TotalCaptures(Front(stk))

\* What a step does to the accumulator and to the number of captured
\* values, for C28.
AccumulatorStep ==
    /\ ((Dispatch("Char") \/ Dispatch("Any")) /\ cursor'.ok) =>
          accumulator' = <<Chr(source[cursor.pos + 1])>>
    /\ (/\ Dispatch("Return")
        /\ stack # <<>>
        /\ Last(stack).precedence = 0) =>
          accumulator' =
             <<Node(IF Last(stack).address \in DOMAIN names
                    THEN names[Last(stack).address] ELSE "",
                    Last(stack).captures)>>
    /\ IF Dispatch("Capture")
       THEN /\ accumulator' = <<>>
            /\ TotalCaptures(stack') <= TotalCaptures(stack) + Len(accumulator)
       ELSE TotalCaptures(stack') <= TotalCaptures(stack)

\* C28: the accumulator is a single slot.  A successful Char or Any and an
\* ordinary Return overwrite it with their one value, Capture empties it:
\* a value is appended to a capture list at most once (the second of two
\* consecutive Captures appends nothing), and a value not captured before
\* the next producing instruction is lost (G <- 'a' . . with Captures after
\* 'a', and after the second Any only, yields a and the third character).
C28_SingleSlotAccumulator ==
    /\ [](Len(accumulator) <= 1)
    /\ [][AccumulatorStep]_vars
    /\ []((program = "cap_twice" /\ status = "ok")
            => accumulator = Some(Node("G", <<Chr("a"), Chr(source[3])>>)))

C28_Witness ==
    /\ program = "cap_twice"
    /\ source = <<"a", "b", "a">>
    /\ status = "ok"
    /\ accumulator = Some(Node("G", <<Chr("a"), Chr("a")>>))

\* C29: while the cursor is an error the instruction at pc is not executed:
\* the step is failure propagation, which leaves ffp, the memo table and
\* the accumulator alone; every instruction other than Fail runs with the
\* cursor at a position; and the step that follows a failed Char or Any
\* restores a Backtrack frame or ends the match.
C29_ErrorCursorOnlyPropagates ==
    /\ [](status = "running" /\ pc_in_range /\ ~cursor.ok
            => instruction.op = "Fail")
    /\ [][(status = "running" /\ ~cursor.ok)
          => /\ UNCHANGED <<ffp, lrmemo, accumulator>>
             /\ \/ status' = "err" /\ error' = cursor.err
                \/ /\ status' = "running"
                   /\ Len(stack') < Len(stack)
                   /\ stack[Len(stack') + 1].ftype = "Backtrack"
                   /\ cursor' = stack[Len(stack') + 1].cursor
                   /\ program_counter' =
                          stack[Len(stack') + 1].program_counter]_vars

\* What failure propagation leaves alone and what it changes, for C30.
FailureFrame ==
    FailureStep =>
        /\ UNCHANGED <<lrmemo, ffp, accumulator>>
        /\ Len(stack') <= Len(stack)
        /\ \A j \in 1..Len(stack') :
              IF j < Len(stack')
              THEN stack'[j] = stack[j]
              ELSE /\ stack'[j] = [stack[j] EXCEPT
                                      !.captures = stack'[j].captures]
                   /\ IsPrefix(stack'[j].captures, stack[j].captures)

\* C30: memo entries live for the whole match: no step removes a key, and
\* failure propagation, during left-recursive growth as anywhere else,
\* leaves the memo table, ffp and the accumulator unchanged; it changes the
\* stack, the cursor, pc and the capture list it truncates only.
C30_FailureKeepsMemo ==
    /\ [][DOMAIN lrmemo \subseteq DOMAIN lrmemo']_vars
    /\ [][FailureFrame]_vars

\* "n+n": the third growth iteration has failed on '+' at the end of the
\* input and the alternative 'n' is about to run; the entry is as the second
\* iteration left it.
C30_Witness ==
    /\ program = "lrvar_1"
    /\ source = <<"n", "+", "n">>
    /\ status = "running"
    /\ program_counter = 7
    /\ cursor = Ok(0)
    /\ ffp = 3
    /\ Len(stack) = 1
    /\ lrmemo[<<2, 0>>] = LeftRecTableEntry(Ok(3), 1, 2)

\* C31: whenever Return runs on a left-recursive Call frame the memo table
\* has the entry for (frame.address, frame's entry cursor): the Return never
\* takes the error path of the missing entry and the match goes on.
C31_LrReturnFindsEntry ==
    /\ [](LrReturn =>
            /\ Last(stack).cursor.ok
            /\ <<Last(stack).address, Last(stack).cursor.pos>>
                   \in DOMAIN lrmemo)
    /\ [][LrReturn => status' = "running"]_vars

\* "n+n": the Return of the third iteration, on the entry grown twice.
C31_Witness ==
    /\ program = "lr_twice"
    /\ LrReturn
    /\ cursor = Ok(1)
    /\ Last(stack).result = Ok(3)
    /\ <<7, 0>> \in DOMAIN lrmemo
    /\ lrmemo[<<7, 0>>].bound = 2

\* The memo key of a left-recursive Call frame.
FrameKey(f) == <<f.address, f.cursor.pos>>

\* The stack positions of the left-recursive Call frames.
LrFrames(stk) == {i \in 1..Len(stk) : stk[i].precedence > 0}

\* C32: at most one left-recursive Call frame is created per memo key in a
\* match: a step pushes one only for a key the table does not hold, the
\* table holds it from then on, and no two frames on the stack share a key.
\* For every left-recursive Call frame on the stack the memo entry at its
\* key has the frame's result as cursor: LeftRec before the first growth,
\* the same position after each growth.
C32_OneFramePerKey ==
    /\ [](\A i \in LrFrames(stack) :
            /\ FrameKey(stack[i]) \in DOMAIN lrmemo
            /\ lrmemo[FrameKey(stack[i])].cursor = stack[i].result
            /\ \A j \in LrFrames(stack) :
                  FrameKey(stack[j]) = FrameKey(stack[i]) => j = i)
    /\ [][/\ DOMAIN lrmemo \subseteq DOMAIN lrmemo'
          /\ (Len(stack') > Len(stack) /\ Last(stack').precedence > 0) =>
                /\ FrameKey(Last(stack')) \notin DOMAIN lrmemo
                /\ FrameKey(Last(stack')) \in DOMAIN lrmemo']_vars

\* The frame of G re-entered after the second growth.
C32_Witness ==
    /\ program = "lrvar_cap"
    /\ status = "running"
    /\ program_counter = 2
    /\ Len(stack) = 1
    /\ stack[1].precedence = 1
    /\ stack[1].result = Ok(3)
    /\ lrmemo[<<2, 0>>].cursor = Ok(3)

\* C33: capture truncation never underflows: the capture count a frame has
\* saved is at most the length of the capture list of the frame below it,
\* the frame on top of the stack when failure propagation restores it, so
\* captures.len() - saved_count in pop_captured is never negative and no
\* failure step panics.
C33_TruncationNeverUnderflows ==
    /\ [](\A i \in 2..Len(stack) :
            stack[i].capture <= Len(stack[i - 1].captures))
    /\ [][FailureStep => status' # "panic"]_vars

\* "abd": the first alternative has failed on 'c', the choice saved with
\* count 1 is restored and the capture of 'b' removed.
C33_Witness ==
    /\ program = "cap_choice"
    /\ source = <<"a", "b", "d">>
    /\ status = "running"
    /\ program_counter = 10
    /\ cursor = Ok(1)
    /\ ffp = 2
    /\ Len(stack) = 1
    /\ stack[1].captures = <<Chr("a")>>

\* C34: on each growth re-entry of a left-recursive call the frame's
\* capture list is what it was at call entry, empty, so the captures the
\* call ends with are those of one iteration of the production body.
C34_GrowthResetsCaptures ==
    [][(LrReturn /\ program_counter' = Last(stack).address
                 /\ Len(stack') = Len(stack))
       => Last(stack').captures = <<>>]_vars

----------------------------------------------------------------------------
\* langlang_lib/src/parser.rs: struct Parser { cursor, ffp, source } and the
\* combinators its grammar functions are written with.

\* Longest source given to Parser::new.
ParserMaxLen == 4

\* The characters of the sources.
ParserAlphabet == {"a", "b", "2"}

\* The code points of the characters, for the comparisons of expect_range.
CodePoint(c) ==
    CASE c = "2" -> 50
      [] c = "a" -> 97
      [] c = "b" -> 98
      [] c = "z" -> 122

\* The value ().
Unit == <<>>

\* enum Error: BacktrackError(usize, String); the message is kept as the
\* words that determine it.
NoParserError == [kind |-> "None", ffp |-> 0, msg |-> <<>>]

BacktrackError(f, msg) == [kind |-> "BacktrackError", ffp |-> f, msg |-> msg]

\* What a call returns and the fields of the Parser it leaves: Ok(val) or
\* Err(err), self.cursor and self.ffp.
POk(v, c, f) ==
    [ok |-> TRUE, val |-> v, err |-> NoParserError, cursor |-> c, ffp |-> f]

PErr(e, c, f) == [ok |-> FALSE, val |-> Unit, err |-> e, cursor |-> c, ffp |-> f]

\* fn err(&mut self, msg): Error::BacktrackError(self.ffp, msg)
err(f, msg) == BacktrackError(f, msg)

\* next that moves the cursor only.
next_ffp_stale(c, f) == f

\* fn next: self.cursor += 1; the new ffp.
next_ffp(c, f) == IF c + 1 > f THEN c + 1 ELSE f

\* fn eof(&self) -> bool
eof(c) == c = Len(parser_source)

\* fn current
current(c, f) ==
    IF ~eof(c) THEN POk(parser_source[c + 1], c, f)
    ELSE PErr(err(f, <<"EOF">>), c, f)

\* fn any
any(c, f) ==
    LET r == current(c, f)
    IN IF ~r.ok THEN r ELSE POk(r.val, c + 1, next_ffp(c, f))

\* fn expect
expect(expected, c, f) ==
    LET r == current(c, f)
    IN IF ~r.ok THEN r
       ELSE IF r.val = expected THEN POk(r.val, c + 1, next_ffp(c, f))
       ELSE PErr(err(f, <<"Expected", expected, r.val>>), c, f)

\* fn expect_range
expect_range(a, b, c, f) ==
    LET r == current(c, f)
    IN IF ~r.ok THEN r
       ELSE IF CodePoint(r.val) >= CodePoint(a)
               /\ CodePoint(r.val) <= CodePoint(b)
       THEN POk(r.val, c + 1, next_ffp(c, f))
       ELSE PErr(err(f, <<"Expected char between", a, b, r.val>>), c, f)

\* fn expect_str: `for c in expected.chars() { self.expect(c)?; }` from the
\* i-th character on.
RECURSIVE expect_str(_, _, _, _)
expect_str(expected, i, c, f) ==
    IF i > Len(expected) THEN POk(expected, c, f)
    ELSE LET r == expect(expected[i], c, f)
         IN IF ~r.ok THEN r ELSE expect_str(expected, i + 1, r.cursor, r.ffp)

\* ParseFn<T>: the functions and closures handed to the combinators, as
\* terms.  op names the Parser method called, ch its characters, fs the
\* functions it is given.
Fn(op, ch, fs) == [op |-> op, ch |-> ch, fs |-> fs]

FExpect(c) == Fn("expect", <<c>>, <<>>)

FExpectStr(s) == Fn("expect_str", s, <<>>)

FExpectRange(a, b) == Fn("expect_range", <<a, b>>, <<>>)

FAny == Fn("any", <<>>, <<>>)

FCurrent == Fn("current", <<>>, <<>>)

FChoice(funcs) == Fn("choice", <<>>, funcs)

FNot(func) == Fn("not", <<>>, <<func>>)

FZeroOrMore(func) == Fn("zero_or_more", <<>>, <<func>>)

FOneOrMore(func) == Fn("one_or_more", <<>>, <<func>>)

\* The closure |p| { first(p)?; second(p) }
FThen(first, second) == Fn("then", <<>>, <<first, second>>)

\* choice that goes on from where the failed alternative stopped.
choice_retry_from_failure(entry, failed) == failed

\* choice: `Err(_) => self.cursor = cursor`, the cursor the next alternative
\* starts from.
choice_retry_from(entry, failed) == entry

\* not that leaves the cursor where func left it.
not_leaves_moved(entry, after) == after

\* not: `self.cursor = cursor`, the cursor after the call.
not_leaves(entry, after) == entry

RECURSIVE Run(_, _, _)
RECURSIVE choice(_, _, _, _, _)
RECURSIVE zero_or_more(_, _, _, _)

\* fn choice: the loop over funcs from the i-th on; entry is the cursor
\* saved at the start.
choice(funcs, i, entry, c, f) ==
    IF i > Len(funcs) THEN PErr(err(f, <<"CHOICE">>), c, f)
    ELSE LET r == Run(funcs[i], c, f)
         IN IF r.ok THEN r
            ELSE choice(funcs, i + 1, entry,
                        choice_retry_from(entry, r.cursor), r.ffp)

\* fn not
not(func, c, f) ==
    LET r == Run(func, c, f)
        after == not_leaves(c, r.cursor)
    IN IF r.ok THEN PErr(err(r.ffp, <<"NOT">>), after, r.ffp)
       ELSE POk(Unit, after, r.ffp)

\* fn zero_or_more: the loop, with the output collected so far.
zero_or_more(func, output, c, f) ==
    LET r == Run(func, c, f)
    IN IF r.ok THEN zero_or_more(func, Append(output, r.val), r.cursor, r.ffp)
       ELSE IF r.err.kind = "BacktrackError" THEN POk(output, r.cursor, r.ffp)
       ELSE r

\* fn one_or_more
one_or_more(func, c, f) ==
    LET r == Run(func, c, f)
    IN IF ~r.ok THEN r
       ELSE LET z == zero_or_more(func, <<>>, r.cursor, r.ffp)
            IN IF ~z.ok THEN z ELSE POk(<<r.val>> \o z.val, z.cursor, z.ffp)

\* The call func(self) on a Parser with cursor c and ffp f.
Run(func, c, f) ==
    CASE func.op = "expect" -> expect(func.ch[1], c, f)
      [] func.op = "expect_str" -> expect_str(func.ch, 1, c, f)
      [] func.op = "expect_range" -> expect_range(func.ch[1], func.ch[2], c, f)
      [] func.op = "any" -> any(c, f)
      [] func.op = "current" -> current(c, f)
      [] func.op = "choice" -> choice(func.fs, 1, c, c, f)
      [] func.op = "not" -> not(func.fs[1], c, f)
      [] func.op = "zero_or_more" -> zero_or_more(func.fs[1], <<>>, c, f)
      [] func.op = "one_or_more" -> one_or_more(func.fs[1], c, f)
      [] func.op = "then" ->
            LET r == Run(func.fs[1], c, f)
            IN IF ~r.ok THEN r ELSE Run(func.fs[2], r.cursor, r.ffp)

\* The calls made on the Parser: those of the unit tests of parser.rs
\* (choice_pick_none, choice_pick_last, choice_pick_first,
\* not_success_on_err, not_err_on_match, zero_or_more) over the characters
\* of ParserAlphabet, and calls of the shapes the grammar functions make
\* (parse_eof: not(current); parse_comment: zero_or_more of a closure that
\* starts with a not; parse_bool: choice over expect_str).
ExpectArgs == {FExpect("a"), FExpect("b")}

ExpectStrArgs == {FExpectStr(<<"a", "b">>)}

ExpectRangeArgs == {FExpectRange("a", "z")}

ChoiceArgs ==
    {FChoice(<<FExpect("a"), FExpect("b")>>),
     FChoice(<<FExpect("a")>>),
     FChoice(<<FExpect("a"), FExpectStr(<<"a", "b">>)>>),
     FChoice(<<FExpectStr(<<"a", "b">>), FExpect("a")>>)}

NotArgs ==
    {FNot(FExpect("b")), FNot(FExpect("a")), FNot(FExpectStr(<<"a", "b">>)),
     FNot(FCurrent)}

ZeroOrMoreArgs ==
    {FZeroOrMore(FExpectRange("a", "z")),
     FZeroOrMore(FExpectStr(<<"a", "b">>)),
     FZeroOrMore(FThen(FNot(FExpect("b")), FAny))}

OneOrMoreArgs == {FOneOrMore(FExpect("a"))}

\* Parser::new(s)
FNew == Fn("new", <<>>, <<>>)

\* The Result a call returned.
Returned(r) == [ok |-> r.ok, val |-> r.val, err |-> r.err]

ParserInit ==
    /\ parser_source \in Strings(ParserAlphabet, ParserMaxLen)
    /\ parser_cursor = 0
    /\ parser_ffp = 0
    /\ parser_call = FNew
    /\ parser_out = Returned(POk(Unit, 0, 0))
    /\ program = ""
    /\ source = <<>>
    /\ cursor = Ok(0)
    /\ ffp = 0
    /\ program_counter = 0
    /\ stack = <<>>
    /\ lrmemo = [key \in {} |-> LeftRecTableEntry(Ok(0), 0, 0)]
    /\ accumulator = None
    /\ status = "idle"
    /\ error = NoError

\* The call parser_call' made by the owner of the Parser: the fields it
\* leaves and the Result it returns.
ParserCall ==
    LET r == Run(parser_call', parser_cursor, parser_ffp)
    IN /\ parser_cursor' = r.cursor
       /\ parser_ffp' = r.ffp
       /\ parser_out' = Returned(r)
       /\ UNCHANGED <<parser_source, vm_vars>>

ParserExpect ==
    /\ parser_call' \in ExpectArgs
    /\ ParserCall

ParserExpectStr ==
    /\ parser_call' \in ExpectStrArgs
    /\ ParserCall

ParserExpectRange ==
    /\ parser_call' \in ExpectRangeArgs
    /\ ParserCall

ParserAny ==
    /\ parser_call' = FAny
    /\ ParserCall

ParserCurrent ==
    /\ parser_call' = FCurrent
    /\ ParserCall

ParserChoice ==
    /\ parser_call' \in ChoiceArgs
    /\ ParserCall

ParserNot ==
    /\ parser_call' \in NotArgs
    /\ ParserCall

ParserZeroOrMore ==
    /\ parser_call' \in ZeroOrMoreArgs
    /\ ParserCall

ParserOneOrMore ==
    /\ parser_call' \in OneOrMoreArgs
    /\ ParserCall

ParserNext ==
    \/ ParserExpect
    \/ ParserExpectStr
    \/ ParserExpectRange
    \/ ParserAny
    \/ ParserCurrent
    \/ ParserChoice
    \/ ParserNot
    \/ ParserZeroOrMore
    \/ ParserOneOrMore

ParserSpec == ParserInit /\ [][ParserNext]_vars

----------------------------------------------------------------------------
\* Vocabulary of the properties of the Parser.

\* The ffp the alternatives before the i-th leave, each tried from cursor c.
RECURSIVE FfpBefore(_, _, _, _)
FfpBefore(funcs, i, c, f) ==
    IF i = 1 THEN f
    ELSE Run(funcs[i - 1], c, FfpBefore(funcs, i - 1, c, f)).ffp

\* The i-th alternative tried from cursor c after those before it.
Alternative(funcs, i, c, f) == Run(funcs[i], c, FfpBefore(funcs, i, c, f))

\* What a call of choice does, for C35.
ChoiceStep ==
    parser_call'.op = "choice" =>
        LET funcs == parser_call'.fs
            winners ==
                {i \in 1..Len(funcs) :
                    Alternative(funcs, i, parser_cursor, parser_ffp).ok}
        IN IF winners = {}
           THEN /\ ~parser_out'.ok
                /\ parser_out'.err.kind = "BacktrackError"
                /\ parser_cursor' = parser_cursor
           ELSE LET first == CHOOSE i \in winners : \A j \in winners : i <= j
                    r == Alternative(funcs, first, parser_cursor, parser_ffp)
                IN /\ parser_out'.ok
                   /\ parser_out'.val = r.val
                   /\ parser_cursor' = r.cursor
                   /\ parser_ffp' = r.ffp

\* C35: choice tries its alternatives in order, each from the cursor at
\* entry, and returns the result of the first that succeeds, with the
\* cursor and ffp that alternative left (later ones are not tried); when
\* every alternative fails it returns a backtrack error and the cursor is
\* the cursor at entry.
C35_ChoiceIsOrdered ==
    /\ [][ChoiceStep]_vars
    /\ []((parser_call = FChoice(<<FExpect("a"), FExpect("b")>>))
            => IF parser_out.ok
               THEN /\ parser_cursor >= 1
                    /\ parser_source[parser_cursor] \in {"a", "b"}
                    /\ parser_out.val = parser_source[parser_cursor]
               ELSE \/ parser_cursor = Len(parser_source)
                    \/ parser_source[parser_cursor + 1] = "2")

\* "a2": 'ab' has failed after its 'a', and 'a' has matched from the start.
C35_Witness ==
    /\ parser_source = <<"a", "2">>
    /\ parser_call = FChoice(<<FExpectStr(<<"a", "b">>), FExpect("a")>>)
    /\ parser_out.ok
    /\ parser_out.val = "a"
    /\ parser_cursor = 1
    /\ parser_ffp = 1

\* C36: not(f) never moves the cursor, whether f succeeded or failed, and
\* returns Ok exactly when f failed, a backtrack error when f succeeded.
C36_NotKeepsCursor ==
    [][parser_call'.op = "not"
       => LET r == Run(parser_call'.fs[1], parser_cursor, parser_ffp)
          IN /\ parser_cursor' = parser_cursor
             /\ parser_out'.ok <=> ~r.ok
             /\ ~parser_out'.ok => parser_out'.err.kind = "BacktrackError"]_vars

\* "ab": 'ab' matches at the start, so not('ab') fails with the cursor at 0.
C36_Witness ==
    /\ parser_source = <<"a", "b">>
    /\ parser_call = FNot(FExpectStr(<<"a", "b">>))
    /\ ~parser_out.ok
    /\ parser_cursor = 0
    /\ parser_ffp = 2

\* The values of the consecutive successful applications of func from
\* cursor c, and the cursor after the last of them.
RECURSIVE Successes(_, _, _, _)
Successes(func, output, c, f) ==
    LET r == Run(func, c, f)
    IN IF r.ok THEN Successes(func, Append(output, r.val), r.cursor, r.ffp)
       ELSE [val |-> output, cursor |-> c]

\* C37: zero_or_more(f) never fails on a backtrack error: it returns the
\* results of the consecutive successful applications of f, in order, and
\* leaves the cursor right after the last successful application, also when
\* f consumes characters before it fails.
C37_ZeroOrMoreStopsAfterLastSuccess ==
    [][parser_call'.op = "zero_or_more"
       => LET s == Successes(parser_call'.fs[1], <<>>,
                             parser_cursor, parser_ffp)
          IN /\ parser_out'.ok
             /\ parser_out'.val = s.val
             /\ parser_cursor' = s.cursor]_vars

\* C38: the cursor of the Parser is in 0..|source| and ffp is at least the
\* cursor in every state; ffp never decreases, choice and not move the
\* cursor back but not ffp; a backtrack error carries the ffp of the moment
\* it is raised, which is the ffp the failed call leaves.
C38_ParserCursorAndFfp ==
    /\ [](/\ 0 <= parser_cursor
          /\ parser_cursor <= Len(parser_source)
          /\ parser_ffp >= parser_cursor
          /\ parser_ffp <= Len(parser_source))
    /\ [][parser_ffp' >= parser_ffp]_vars
    /\ [](~parser_out.ok =>
            /\ parser_out.err.kind = "BacktrackError"
            /\ parser_out.err.ffp = parser_ffp)

\* "aa…": not('a') has failed; the cursor is back at 0, ffp and the error
\* hold 1.
C38_Witness ==
    /\ parser_call = FNot(FExpect("a"))
    /\ ~parser_out.ok
    /\ parser_out.err = BacktrackError(1, <<"NOT">>)
    /\ parser_cursor = 0
    /\ parser_ffp = 1

====
